---- MODULE Spec2Model ----
(***************************************************************************)
(* A model of the Gmail watcher (src/src/watchers/gmail_watcher.py):       *)
(*   - the poll loop GmailWatcher.run with check_for_updates,              *)
(*     create_action_file and the seen-ids store (specification Spec);     *)
(*   - the body extractor _extract_full_email_body with its text helpers   *)
(*     (specification SpecBody);                                           *)
(*   - the text normalizers _clean_text and _ensure_plain_text applied to  *)
(*     a text and then to their own output (specification SpecText).       *)
(***************************************************************************)
EXTENDS Integers, Sequences, FiniteSets, TLC

VARIABLES
    pc,             \* where the process is: "down", "check", "create", "mark", "except_sleep", "sleep"
    processed_ids,  \* self.processed_ids, the in-memory SeenSet
    seenFile,       \* the backing file .gmail_processed_ids: [exists, content]
    inbox,          \* the file names present in <vault>/Inbox
    items,          \* the list check_for_updates returned to run()
    idx,            \* position of run()'s "for item in items"
    slept,          \* time.sleep(check_interval) calls since the last cycle started
    lastEvent,      \* history: what the last step did, [kind, id]
    cyc,            \* history: what the current (or last) cycle did
    retry,          \* history: ids whose handling failed in this process and has not succeeded since
    msg,            \* body extractor: the message given to _extract_full_email_body
    body,           \* body extractor: [done, text, raised], the value returned
    norm            \* text normalizer: [fn, passes, text], text after passes calls of fn

vars == <<pc, processed_ids, seenFile, inbox, items, idx, slept, lastEvent, cyc, retry, msg, body, norm>>

loopVars == <<pc, processed_ids, seenFile, inbox, items, idx, slept, lastEvent, cyc, retry>>
bodyVars == <<msg, body, norm>>

-----------------------------------------------------------------------------
(* Bounds *)

\* number of distinct message ids the mailbox can list
MaxIds == 2

Ids == 1..MaxIds

-----------------------------------------------------------------------------
(* Seen-Set store: _save_processed_ids / _load_processed_ids *)

\* the line separator of the backing file ('\n'); ids are the tokens 1..MaxIds
NL == 0

Min(S) == CHOOSE x \in S : \A y \in S : x <= y

RECURSIVE SortedSeq(_)
\* sorted(self.processed_ids)
SortedSeq(S) == IF S = {} THEN <<>> ELSE <<Min(S)>> \o SortedSeq(S \ {Min(S)})

RECURSIVE JoinLines(_)
\* '\n'.join(lines)
JoinLines(lines) ==
    IF lines = <<>> THEN <<>>
    ELSE IF Len(lines) = 1 THEN <<lines[1]>>
    ELSE <<lines[1], NL>> \o JoinLines(Tail(lines))

RECURSIVE StripNL(_)
\* str.strip() on the file content: drops leading and trailing whitespace
StripNL(c) ==
    IF c = <<>> THEN <<>>
    ELSE IF c[1] = NL THEN StripNL(Tail(c))
    ELSE IF c[Len(c)] = NL THEN StripNL(SubSeq(c, 1, Len(c) - 1))
    ELSE c

\* str.splitlines(): the lines between separators (every line the store writes is one id)
SplitLines(c) == SelectSeq(c, LAMBDA t : t # NL)

Range(s) == {s[i] : i \in 1..Len(s)}

\* the file a successful write_text('\n'.join(sorted(ids))) leaves
SavedFileNotWritten(ids) == [exists |-> FALSE, content |-> <<>>]
SavedFile(ids) == [exists |-> TRUE, content |-> JoinLines(SortedSeq(ids))]

\* what a write_text that raises can leave: the old file (open failed), or a
\* file truncated by open(..., 'w') whose data was never written
FailedSaveFiles(old) == {old, [exists |-> TRUE, content |-> <<>>]}

\* _load_processed_ids when the file exists and is read
LoadedIds(file) ==
    LET content == StripNL(file.content)
    IN IF content # <<>> THEN Range(SplitLines(content)) ELSE {}

\* what create_action_file does after a save that raised: _save_processed_ids
\* swallows the exception, so create_action_file goes on and returns the path
OnSaveErrorRaise(next) == "except_sleep"
OnSaveError(next) == next

\* the in-memory set after create_action_file raised for id: processed_ids.add
\* comes after write_text, so it was not reached
SeenAfterFailedWriteAdds(seen, id) == seen \cup {id}
SeenAfterFailedWrite(seen, id) == seen

\* the ids the backing file holds (what a successful load would return)
FileIds == IF seenFile.exists THEN LoadedIds(seenFile) ELSE {}

-----------------------------------------------------------------------------
(* Note writer: the file name of create_action_file *)

\* f"EMAIL_{message_id}.md"
NoteName(id) == <<"EMAIL_", id, ".md">>

-----------------------------------------------------------------------------
(* check_for_updates *)

\* the duplicate-free listings messages.list may return
Listings == {s \in UNION {[1..n -> Ids] : n \in 0..MaxIds} :
                \A i, j \in 1..Len(s) : i # j => s[i] # s[j]}

\* "if message['id'] not in self.processed_ids"
IsNewAlways(id, seen) == TRUE
IsNew(id, seen) == id \notin seen

\* what run() does next when messages.list raised inside check_for_updates:
\* the except clause returns [], so run() goes on to its sleep
OnListErrorRaise == "down"
OnListError == "sleep"

EmptyCycle == [listed |-> FALSE, listing |-> <<>>, unseen |-> {}, fetched |-> {}, fetchFailed |-> {},
               written |-> {}, writeFailed |-> {}, saveFailed |-> {}]

NoEvent == [kind |-> "none", id |-> 0]

Init ==
    /\ pc = "check"
    /\ processed_ids = {}
    /\ seenFile = [exists |-> FALSE, content |-> <<>>]
    /\ inbox = {}
    /\ items = <<>>
    /\ idx = 1
    /\ slept = 0
    /\ lastEvent = NoEvent
    /\ cyc = EmptyCycle
    /\ retry = {}
    /\ msg = [none |-> TRUE]
    /\ body = [done |-> FALSE]
    /\ norm = [none |-> TRUE]

-----------------------------------------------------------------------------
(* The poll loop: GmailWatcher.run *)

\* check_for_updates, called at the top of run()'s try block
CheckForUpdates ==
    /\ pc = "check"
    /\ slept' = 0
    /\ idx' = 1
    /\ UNCHANGED <<processed_ids, seenFile, inbox>>
    /\ UNCHANGED bodyVars
    /\ \/ \* messages.list(...).execute() raises: logged, return []
          /\ items' = <<>>
          /\ pc' = OnListError
          /\ cyc' = EmptyCycle
          /\ lastEvent' = [kind |-> "list_err", id |-> 0]
          /\ UNCHANGED retry
       \/ \* the listing is returned; the detail of each new id is fetched in order,
          \* and the first fetch that raises makes the whole call return []
          \E l \in Listings :
            LET unseenSeq == SelectSeq(l, LAMBDA id : IsNew(id, processed_ids))
            IN \E failAt \in 0..Len(unseenSeq) :
                LET reached == IF failAt = 0 THEN unseenSeq ELSE SubSeq(unseenSeq, 1, failAt)
                    failed == IF failAt = 0 THEN {} ELSE {unseenSeq[failAt]}
                IN /\ items' = IF failAt = 0 THEN unseenSeq ELSE <<>>
                   /\ pc' = IF items' = <<>> THEN "sleep" ELSE "create"
                   /\ cyc' = [EmptyCycle EXCEPT !.listed = TRUE,
                                                !.listing = l,
                                                !.unseen = Range(unseenSeq),
                                                !.fetched = Range(reached),
                                                !.fetchFailed = failed]
                   /\ retry' = retry \cup failed
                   /\ lastEvent' = IF failAt = 0 THEN [kind |-> "checked", id |-> 0]
                                   ELSE [kind |-> "fetch_err", id |-> unseenSeq[failAt]]

\* create_action_file up to and including filepath.write_text(content)
WriteNote ==
    /\ pc = "create"
    /\ LET id == items[idx]
       IN \/ \* building or writing the note raises: logged, re-raised, caught by run()
             /\ pc' = "except_sleep"
             /\ retry' = retry \cup {id}
             /\ cyc' = [cyc EXCEPT !.writeFailed = @ \cup {id}]
             /\ lastEvent' = [kind |-> "write_err", id |-> id]
             /\ processed_ids' = SeenAfterFailedWrite(processed_ids, id)
             /\ UNCHANGED inbox
          \/ \* the note is written
             /\ pc' = "mark"
             /\ inbox' = inbox \cup {NoteName(id)}
             /\ cyc' = [cyc EXCEPT !.written = @ \cup {id}]
             /\ lastEvent' = [kind |-> "write_ok", id |-> id]
             /\ UNCHANGED <<retry, processed_ids>>
    /\ UNCHANGED <<seenFile, items, idx, slept>>
    /\ UNCHANGED bodyVars

\* create_action_file after the write: processed_ids.add, _save_processed_ids, return
MarkProcessed ==
    /\ pc = "mark"
    /\ LET id == items[idx]
           next == IF idx < Len(items) THEN "create" ELSE "sleep"
       IN /\ processed_ids' = processed_ids \cup {id}
          /\ retry' = retry \ {id}
          /\ idx' = idx + 1
          /\ \/ \* write_text succeeds
                /\ seenFile' = SavedFile(processed_ids')
                /\ pc' = next
                /\ lastEvent' = [kind |-> "save_ok", id |-> id]
                /\ UNCHANGED cyc
             \/ \* write_text raises: logged by _save_processed_ids
                /\ seenFile' \in FailedSaveFiles(seenFile)
                /\ pc' = OnSaveError(next)
                /\ cyc' = [cyc EXCEPT !.saveFailed = @ \cup {id}]
                /\ lastEvent' = [kind |-> "save_err", id |-> id]
    /\ UNCHANGED <<inbox, items, slept>>
    /\ UNCHANGED bodyVars

\* run()'s "except Exception": time.sleep(self.check_interval) before falling out of the try
SleepAfterError ==
    /\ pc = "except_sleep"
    /\ pc' = "sleep"
    /\ slept' = slept + 1
    /\ lastEvent' = [kind |-> "sleep", id |-> 0]
    /\ UNCHANGED <<processed_ids, seenFile, inbox, items, idx, cyc, retry>>
    /\ UNCHANGED bodyVars

\* run()'s time.sleep(self.check_interval) at the end of the loop body
Sleep ==
    /\ pc = "sleep"
    /\ pc' = "check"
    /\ slept' = slept + 1
    /\ lastEvent' = [kind |-> "sleep", id |-> 0]
    /\ UNCHANGED <<processed_ids, seenFile, inbox, items, idx, cyc, retry>>
    /\ UNCHANGED bodyVars

\* the process ends (killed, power loss, KeyboardInterrupt): its memory is lost,
\* the files stay
Crash ==
    /\ pc # "down"
    /\ pc' = "down"
    /\ processed_ids' = {}
    /\ items' = <<>>
    /\ idx' = 1
    /\ slept' = 0
    /\ retry' = {}
    /\ lastEvent' = [kind |-> "crash", id |-> 0]
    /\ UNCHANGED <<seenFile, inbox, cyc>>
    /\ UNCHANGED bodyVars

\* a new process: __init__ loads the seen ids, then run() is entered
Start ==
    /\ pc = "down"
    /\ pc' = "check"
    /\ \/ \* the file does not exist
          /\ ~seenFile.exists
          /\ processed_ids' = {}
          /\ lastEvent' = [kind |-> "load_missing", id |-> 0]
       \/ \* the file is read
          /\ seenFile.exists
          /\ processed_ids' = LoadedIds(seenFile)
          /\ lastEvent' = [kind |-> "load_ok", id |-> 0]
       \/ \* read_text raises: logged, empty set
          /\ seenFile.exists
          /\ processed_ids' = {}
          /\ lastEvent' = [kind |-> "load_err", id |-> 0]
    /\ UNCHANGED <<seenFile, inbox, items, idx, slept, cyc, retry>>
    /\ UNCHANGED bodyVars

Next ==
    \/ CheckForUpdates
    \/ WriteNote
    \/ MarkProcessed
    \/ SleepAfterError
    \/ Sleep
    \/ Crash
    \/ Start

Spec == Init /\ [][Next]_vars

-----------------------------------------------------------------------------
(* Claims about the poll loop *)

CycleOver == pc \in {"sleep", "except_sleep"}

\* C1: within one poll cycle, when handling one unseen message fails (its
\* detail fetch or its note write raises), every other unseen message of the
\* same listing is still written as a note and marked seen by the end of
\* that cycle.
C1_OthersStillProcessed ==
    (CycleOver /\ cyc.listed) =>
        \A id \in cyc.unseen \ (cyc.fetchFailed \cup cyc.writeFailed) :
            id \in processed_ids /\ NoteName(id) \in inbox

C4_SeenSetMonotonic ==
    [][ /\ (pc # "down" /\ pc' # "down") => processed_ids \subseteq processed_ids'
        /\ lastEvent'.kind = "save_ok" => FileIds \subseteq FileIds'
      ]_vars

C6_ListErrorIsEmptyCycle ==
    [][ /\ lastEvent'.kind = "list_err" =>
              /\ pc' = "sleep"
              /\ items' = <<>>
              /\ cyc'.fetched = {} /\ cyc'.written = {}
              /\ UNCHANGED <<processed_ids, seenFile, inbox>>
        /\ (lastEvent.kind = "list_err" /\ pc' # "down") =>
              /\ pc' = "check"
              /\ lastEvent'.kind = "sleep"
              /\ UNCHANGED <<processed_ids, seenFile, inbox>>
      ]_vars

\* a cycle whose listing raised is over and the next one is about to start
C6_Witness ==
    /\ pc = "check"
    /\ lastEvent.kind = "sleep"
    /\ ~cyc.listed
    /\ processed_ids # {}

\* C7: a save that raises is not fatal: create_action_file returns (run() goes
\* on with the next item or the sleep), the id is in the in-memory set and the
\* running process never drops it, and a save that succeeds writes exactly the
\* in-memory set, the ids of failed saves included.
C7_SaveErrorNonFatal ==
    [][ /\ lastEvent'.kind = "save_err" =>
              /\ lastEvent'.id \in processed_ids'
              /\ pc' = IF idx < Len(items) THEN "create" ELSE "sleep"
        /\ (pc # "down" /\ pc' # "down") => processed_ids \subseteq processed_ids'
        /\ lastEvent'.kind = "save_ok" => FileIds' = processed_ids'
      ]_vars

\* a save succeeded after an earlier save of the cycle had failed, and the file
\* holds the id of the failed save
C7_Witness ==
    /\ lastEvent.kind = "save_ok"
    /\ cyc.saveFailed # {}
    /\ lastEvent.id \notin cyc.saveFailed
    /\ cyc.saveFailed \subseteq FileIds

\* C9: when a cycle starts after the sleep that followed the previous cycle,
\* run() has slept exactly one check_interval.
C9_OneSleepBetweenCycles ==
    (pc = "check" /\ lastEvent.kind = "sleep") => slept = 1

\* C12: create_action_file writes the note, then adds the id to the SeenSet,
\* then saves the backing file: an id about to be added has its note and is
\* not yet seen, a save that succeeded wrote the id just added, and every id
\* in the in-memory SeenSet or in the backing file has its note
\* EMAIL_<id>.md in the Inbox.
C12_SeenIdHasNote ==
    /\ pc = "mark" => (NoteName(items[idx]) \in inbox /\ items[idx] \notin processed_ids)
    /\ lastEvent.kind = "save_ok" => lastEvent.id \in processed_ids \cap FileIds
    /\ \A id \in processed_ids \cup FileIds : NoteName(id) \in inbox

\* an id was marked seen and saved and the note write of a later id failed:
\* the ids of the SeenSet and of the file have their notes, the failed id has
\* no note and is in neither
C12_Witness ==
    /\ lastEvent.kind = "write_err"
    /\ lastEvent.id \notin processed_ids \cup FileIds
    /\ NoteName(lastEvent.id) \notin inbox
    /\ processed_ids # {}
    /\ FileIds # {}
    /\ \A id \in processed_ids \cup FileIds : NoteName(id) \in inbox

-----------------------------------------------------------------------------
(* Text helpers.  A text is a sequence of characters (one-character strings;
   "NBSP" stands for the character U+00A0).  A substitution (re.sub,
   str.replace, html.unescape) goes from one match to the next one, left to
   right; an operator first binds its arguments to their values (x \in {x0})
   so that each is computed once. *)

\* the one element of a singleton set
The(S) == CHOOSE x \in S : TRUE

Letters == {"a", "b", "c", "d", "e", "f", "g", "h", "i", "j", "k", "l", "m", "n", "o", "p", "q", "r", "s", "t", "u", "v", "w", "x", "y", "z", "A", "B", "C", "D", "E", "F", "G", "H", "I", "J", "K", "L", "M", "N", "O", "P", "Q", "R", "S", "T", "U", "V", "W", "X", "Y", "Z"}
Digits == {"0", "1", "2", "3", "4", "5", "6", "7", "8", "9"}

\* the characters \s matches
Spaces == {" ", "\t", "\n", "\r", "\f", "NBSP"}
IsSpace(c) == c \in Spaces

\* s has pat at position i
StartsWithAt(s, i, pat) ==
    /\ i + Len(pat) - 1 <= Len(s)
    /\ \A k \in 1..Len(pat) : s[i + k - 1] = pat[k]

\* str.lower() on the letters of the tag names matched with re.IGNORECASE
LowerChar(c) ==
    CASE c = "S" -> "s" [] c = "C" -> "c" [] c = "R" -> "r" [] c = "I" -> "i"
      [] c = "P" -> "p" [] c = "T" -> "t" [] c = "Y" -> "y" [] c = "L" -> "l"
      [] c = "E" -> "e" [] OTHER -> c

\* s has pat at position i, letter case ignored (pat is lower case)
StartsWithAtIgnoreCase(s, i, pat) ==
    /\ i + Len(pat) - 1 <= Len(s)
    /\ \A k \in 1..Len(pat) : LowerChar(s[i + k - 1]) = pat[k]

\* the first of a set of positions, 0 when there is none
First(positions) ==
    The({ IF hits = {} THEN 0 ELSE Min(hits) : hits \in {positions} })

\* the first position >= i where s has pat (letter case ignored), 0 when there is none
FindFrom(s, i, pat) == First({j \in i..Len(s) : StartsWithAtIgnoreCase(s, j, pat)})

\* the character references html.unescape decodes here: name (after "&") and value
Entities == <<
    [name |-> <<"n", "b", "s", "p">>, value |-> <<"NBSP">>],
    [name |-> <<"a", "m", "p">>, value |-> <<"&">>],
    [name |-> <<"l", "t">>, value |-> <<"<">>],
    [name |-> <<"g", "t">>, value |-> <<">">>],
    [name |-> <<"q", "u", "o", "t">>, value |-> <<"\"">>],
    [name |-> <<"#", "3", "9">>, value |-> <<"'">>] >>

\* the reference starting at the "&" of position i: [len, value], len 0 when
\* there is none; the ";" after the name is optional and taken when present
EntityAt(s, i) ==
    IF s[i] # "&" THEN [len |-> 0, value |-> <<>>]
    ELSE The({ IF hits = {} THEN [len |-> 0, value |-> <<>>]
               ELSE The({ [len |-> IF i + n <= Len(s) /\ s[i + n] = ";" THEN n + 1 ELSE n,
                           value |-> Entities[The(hits)].value] :
                          n \in {1 + Len(Entities[The(hits)].name)} }) :
               hits \in {{h \in 1..Len(Entities) : StartsWithAt(s, i + 1, Entities[h].name)}} })

RECURSIVE UnescapeFrom(_, _)
UnescapeFrom(s0, i0) ==
    The({ The({ IF j = 0 THEN SubSeq(s, i, Len(s))
                ELSE The({ SubSeq(s, i, j - 1) \o e.value \o UnescapeFrom(s, j + e.len) :
                           e \in {EntityAt(s, j)} }) :
                j \in {First({q \in i..Len(s) : EntityAt(s, q).len > 0})} }) :
          s \in {s0}, i \in {i0} })

\* html.unescape: one left-to-right pass
Unescape(s) == UnescapeFrom(s, 1)

\* the characters of the URL patterns' class:
\* [a-zA-Z] | [0-9] | [$-_@.&+] | [!*\\(\\),] | %XX
UrlChars == Letters \cup Digits \cup {"$", "%", "&", "'", "(", ")", "*", "+", ",", "-", ".", "/", ":", ";", "<", "=", ">", "?", "@", "[", "\\", "]", "^", "_", "!"}

\* the position after the longest run of characters of set cs starting at i
RunEnd(s, i, cs) ==
    The({ IF stop = 0 THEN Len(s) + 1 ELSE stop :
          stop \in {First({j \in i..Len(s) : s[j] \notin cs})} })

\* a URL of the pattern starts at position i: one of the prefixes, then a URL character
UrlAt(s, i, prefixes) ==
    {q \in prefixes : /\ StartsWithAt(s, i, q)
                      /\ i + Len(q) <= Len(s)
                      /\ s[i + Len(q)] \in UrlChars}

RECURSIVE RemoveUrlsFrom(_, _, _)
\* re.sub(prefix + '(?:url char)+', '', s) for the prefixes given
RemoveUrlsFrom(s0, i0, prefixes) ==
    The({ The({ IF j = 0 THEN SubSeq(s, i, Len(s))
                ELSE SubSeq(s, i, j - 1)
                     \o RemoveUrlsFrom(s, RunEnd(s, j + Len(The(UrlAt(s, j, prefixes))), UrlChars),
                                       prefixes) :
                j \in {First({q \in i..Len(s) : UrlAt(s, q, prefixes) # {}})} }) :
          s \in {s0}, i \in {i0} })

HttpPrefixes == {<<"h", "t", "t", "p", ":", "/", "/">>, <<"h", "t", "t", "p", "s", ":", "/", "/">>}
WwwPrefixes == {<<"w", "w", "w", ".">>}

RECURSIVE CollapseFrom(_, _)
CollapseFrom(s0, i0) ==
    The({ The({ IF j = 0 THEN SubSeq(s, i, Len(s))
                ELSE SubSeq(s, i, j - 1) \o <<" ">> \o CollapseFrom(s, RunEnd(s, j, Spaces)) :
                j \in {First({q \in i..Len(s) : IsSpace(s[q])})} }) :
          s \in {s0}, i \in {i0} })

\* re.sub(r'\s+', ' ', s)
CollapseWs(s) == CollapseFrom(s, 1)

\* str.strip()
Strip(s0) ==
    The({ IF \A i \in 1..Len(s) : IsSpace(s[i]) THEN <<>>
          ELSE SubSeq(s, CHOOSE i \in 1..Len(s) :
                             ~IsSpace(s[i]) /\ \A j \in 1..(i - 1) : IsSpace(s[j]),
                         CHOOSE i \in 1..Len(s) :
                             ~IsSpace(s[i]) /\ \A j \in (i + 1)..Len(s) : IsSpace(s[j])) :
          s \in {s0} })

\* position of the "\n" of a match of [ \t]*\n that starts at i, 0 when there is none
LineBreakAt(s, i) ==
    The({ IF k <= Len(s) /\ s[k] = "\n" THEN k ELSE 0 : k \in {RunEnd(s, i, {" ", "\t"})} })

RECURSIVE LineBreaksFrom(_, _)
LineBreaksFrom(s0, i0) ==
    The({ The({ IF j = 0 THEN SubSeq(s, i, Len(s))
                ELSE SubSeq(s, i, j - 1) \o <<"\n">>
                     \o LineBreaksFrom(s, RunEnd(s, LineBreakAt(s, j) + 1, {" ", "\t"})) :
                j \in {First({q \in i..Len(s) : LineBreakAt(s, q) # 0})} }) :
          s \in {s0}, i \in {i0} })

\* re.sub(r'[ \t]*\n[ \t]*', '\n', s)
NormalizeLineBreaks(s) == LineBreaksFrom(s, 1)

RECURSIVE ReplaceFrom(_, _, _, _)
ReplaceFrom(s0, i0, pat, rep) ==
    The({ The({ IF j = 0 THEN SubSeq(s, i, Len(s))
                ELSE SubSeq(s, i, j - 1) \o rep \o ReplaceFrom(s, j + Len(pat), pat, rep) :
                j \in {First({q \in i..Len(s) : StartsWithAt(s, q, pat)})} }) :
          s \in {s0}, i \in {i0} })

\* str.replace(pat, rep)
Replace(s, pat, rep) == ReplaceFrom(s, 1, pat, rep)

\* _clean_text
CleanText(text) ==
    IF text = <<>> THEN <<>>
    ELSE The({ NormalizeLineBreaks(t5) :
               t5 \in { Strip(t4) :
               t4 \in { CollapseWs(t3) :
               t3 \in { RemoveUrlsFrom(t2, 1, WwwPrefixes) :
               t2 \in { RemoveUrlsFrom(t1, 1, HttpPrefixes) :
               t1 \in { Unescape(text) } } } } } })

\* entity_map of _ensure_plain_text, in its order
EntityMap == <<
    [entity |-> <<"&", "n", "b", "s", "p", ";">>, replacement |-> <<" ">>],
    [entity |-> <<"&", "a", "m", "p", ";">>, replacement |-> <<"&">>],
    [entity |-> <<"&", "l", "t", ";">>, replacement |-> <<"<">>],
    [entity |-> <<"&", "g", "t", ";">>, replacement |-> <<">">>],
    [entity |-> <<"&", "q", "u", "o", "t", ";">>, replacement |-> <<"\"">>],
    [entity |-> <<"&", "#", "3", "9", ";">>, replacement |-> <<"'">>] >>

RECURSIVE ReplaceEntities(_, _)
\* "for entity, replacement in entity_map.items(): cleaned = cleaned.replace(...)"
ReplaceEntities(s0, k) ==
    The({ IF k > Len(EntityMap) THEN s
          ELSE ReplaceEntities(Replace(s, EntityMap[k].entity, EntityMap[k].replacement), k + 1) :
          s \in {s0} })

\* _ensure_plain_text
EnsurePlainText(text) ==
    IF text = <<>> THEN <<>>
    ELSE The({ CleanText(t2) : t2 \in { ReplaceEntities(t1, 1) : t1 \in { CleanText(text) } } })

\* the position after a match of <(script|style)[^>]*>.*?</\1> that starts at i
\* (DOTALL, IGNORECASE), 0 when there is none
BlockEnd(s, i) ==
    The({ IF names = {} THEN 0
          ELSE The({ IF open = 0 THEN 0
                     ELSE The({ IF close = 0 THEN 0 ELSE close + Len(The(names)) + 3 :
                                close \in {FindFrom(s, open + 1,
                                              <<"<", "/">> \o The(names) \o <<">">>)} }) :
                     open \in {FindFrom(s, i + 1 + Len(The(names)), <<">">>)} }) :
          names \in {{n \in {<<"s", "c", "r", "i", "p", "t">>, <<"s", "t", "y", "l", "e">>} :
                        StartsWithAtIgnoreCase(s, i, <<"<">> \o n)}} })

\* the position after a match of <!--.*?--> that starts at i (DOTALL), 0 when there is none
CommentEnd(s, i) ==
    IF ~StartsWithAt(s, i, <<"<", "!", "-", "-">>) THEN 0
    ELSE The({ IF close = 0 THEN 0 ELSE close + 3 :
               close \in {FindFrom(s, i + 4, <<"-", "-", ">">>)} })

\* the position after a match of <[^>]*> that starts at i, 0 when there is none
TagEnd(s, i) ==
    IF s[i] # "<" THEN 0
    ELSE The({ IF close = 0 THEN 0 ELSE close + 1 : close \in {FindFrom(s, i + 1, <<">">>)} })

RECURSIVE StripBlocksFrom(_, _)
\* re.sub(r'<(script|style)[^>]*>.*?</\1>', ' ', s, flags=DOTALL | IGNORECASE)
StripBlocksFrom(s0, i0) ==
    The({ The({ IF j = 0 THEN SubSeq(s, i, Len(s))
                ELSE SubSeq(s, i, j - 1) \o <<" ">> \o StripBlocksFrom(s, BlockEnd(s, j)) :
                j \in {First({q \in i..Len(s) : BlockEnd(s, q) # 0})} }) :
          s \in {s0}, i \in {i0} })

RECURSIVE StripCommentsFrom(_, _)
\* re.sub(r'<!--.*?-->', ' ', s, flags=DOTALL)
StripCommentsFrom(s0, i0) ==
    The({ The({ IF j = 0 THEN SubSeq(s, i, Len(s))
                ELSE SubSeq(s, i, j - 1) \o <<" ">> \o StripCommentsFrom(s, CommentEnd(s, j)) :
                j \in {First({q \in i..Len(s) : CommentEnd(s, q) # 0})} }) :
          s \in {s0}, i \in {i0} })

RECURSIVE StripTagsFrom(_, _)
\* re.sub(r'<[^>]*>', ' ', s)
StripTagsFrom(s0, i0) ==
    The({ The({ IF j = 0 THEN SubSeq(s, i, Len(s))
                ELSE SubSeq(s, i, j - 1) \o <<" ">> \o StripTagsFrom(s, TagEnd(s, j)) :
                j \in {First({q \in i..Len(s) : TagEnd(s, q) # 0})} }) :
          s \in {s0}, i \in {i0} })

\* _html_to_plain_text
HtmlToPlainText(html) ==
    IF html = <<>> THEN <<>>
    ELSE The({ Strip(t5) :
               t5 \in { CollapseWs(t4) :
               t4 \in { StripTagsFrom(t3, 1) :
               t3 \in { StripCommentsFrom(t2, 1) :
               t2 \in { StripBlocksFrom(t1, 1) :
               t1 \in { Unescape(html) } } } } } })

\* the characters of _is_html_only's pattern ^[<>\s\/=\-"\'\[\]]*$
RemnantChars == {"<", ">", " ", "\t", "\n", "\r", "\f", "NBSP", "/", "=", "-", "\"", "'", "[", "]"}

\* _is_html_only
IsHtmlOnly(text) ==
    \/ text = <<>>
    \/ \A i \in 1..Len(text) : IsSpace(text[i])
    \/ \E stripped \in { Strip(t) : t \in { CollapseWs(text) } } :
          \/ Len(stripped) < 5
          \/ \A i \in 1..Len(stripped) : stripped[i] \in RemnantChars

-----------------------------------------------------------------------------
(* Body extractor: _extract_full_email_body *)

\* longest part list of a message
MaxParts == 3

\* a mimeType is <<type, subtype>>; <<"", "">> is part.get('mimeType', '')
\* of a part without one
TextPlain == <<"text", "plain">>
TextHtml == <<"text", "html">>

\* mime_type.startswith('image/')
IsImage(mime) == mime[1] = "image"

\* body data: the base64url string of a part ("present" is FALSE when the
\* part has no data or an empty one), "padded" whether its padding is correct,
\* "bytes" what it encodes; the byte "xFF" is not valid UTF-8
NoData == [present |-> FALSE, padded |-> TRUE, bytes |-> <<>>]
Enc(t) == [present |-> TRUE, padded |-> TRUE, bytes |-> t]
BadPadding(t) == [present |-> TRUE, padded |-> FALSE, bytes |-> t]

\* base64.urlsafe_b64decode(body_data).decode('utf-8'): [raised, text]
Decode(data) ==
    IF ~data.padded THEN [raised |-> TRUE, text |-> <<>>]
    ELSE IF \E i \in 1..Len(data.bytes) : data.bytes[i] = "xFF"
         THEN [raised |-> TRUE, text |-> <<>>]
    ELSE [raised |-> FALSE, text |-> data.bytes]

NoContentAvailable == <<"N", "o", " ", "c", "o", "n", "t", "e", "n", "t", " ", "a", "v", "a", "i", "l", "a", "b", "l", "e">>
ExtractionFailed == <<"C", "o", "n", "t", "e", "n", "t", " ", "e", "x", "t", "r", "a", "c", "t", "i", "o", "n", " ", "f", "a", "i", "l", "e", "d", ",", " ", "n", "o", " ", "c", "o", "n", "t", "e", "n", "t", " ", "a", "v", "a", "i", "l", "a", "b", "l", "e">>

\* msg.get('snippet', default)
Snippet(m, default) == IF m.snippet.present THEN m.snippet.text ELSE default

\* "if self._is_html_only(cleaned_content): return ''" after _ensure_plain_text
Finish(text) ==
    The({ IF IsHtmlOnly(cleaned) THEN <<>> ELSE cleaned : cleaned \in {EnsurePlainText(text)} })

Found(t) == [kind |-> "text", text |-> t]
Raised == [kind |-> "raise", text |-> <<>>]
NotFound == [kind |-> "none", text |-> <<>>]

\* the test of the first loop: "if mime_type == 'text/plain'"
IsPlainOrAnyText(mime) == mime[1] = "text"
IsPlain(mime) == mime = TextPlain

RECURSIVE PlainPass(_, _)
\* the first loop over parts: the first text/plain part with data is decoded and returned
PlainPass(parts, i) ==
    IF i > Len(parts) THEN NotFound
    ELSE IF IsImage(parts[i].mimeType) THEN PlainPass(parts, i + 1)
    ELSE IF IsPlain(parts[i].mimeType) /\ parts[i].data.present
         THEN The({ IF d.raised THEN Raised ELSE Found(Finish(d.text)) :
                    d \in {Decode(parts[i].data)} })
    ELSE PlainPass(parts, i + 1)

RECURSIVE HtmlPass(_, _)
\* the second loop over parts: the first text/html part with data is decoded,
\* converted and returned
HtmlPass(parts, i) ==
    IF i > Len(parts) THEN NotFound
    ELSE IF IsImage(parts[i].mimeType) THEN HtmlPass(parts, i + 1)
    ELSE IF parts[i].mimeType = TextHtml /\ parts[i].data.present
         THEN The({ IF d.raised THEN Raised ELSE Found(Finish(HtmlToPlainText(d.text))) :
                    d \in {Decode(parts[i].data)} })
    ELSE HtmlPass(parts, i + 1)

\* the try block of _extract_full_email_body
TryExtract(m) ==
    IF ~m.hasPayload THEN Found(Finish(Snippet(m, NoContentAvailable)))
    ELSE IF m.hasParts
         THEN The({ IF p.kind # "none" THEN p
                    ELSE The({ IF h.kind # "none" THEN h
                               ELSE Found(Finish(Snippet(m, NoContentAvailable))) :
                               h \in {HtmlPass(m.parts, 1)} }) :
                    p \in {PlainPass(m.parts, 1)} })
    ELSE IF m.inline.hasData
         THEN The({ IF d.raised THEN Raised ELSE Found(Finish(d.text)) :
                    d \in {Decode(m.inline.data)} })
    ELSE Found(Finish(Snippet(m, NoContentAvailable)))

\* _extract_full_email_body: any exception of the try block falls back to the snippet
ExtractFullEmailBody(m) ==
    The({ IF r.kind = "raise" THEN Finish(Snippet(m, ExtractionFailed)) ELSE r.text :
          r \in {TryExtract(m)} })

(* The messages the extractor is run on *)

PlainSample == <<"H", "e", "l", "l", "o", " ", "B", "o", "b">>
OtherPlainSample == <<"S", "e", "e", " ", "y", "o", "u", " ", "a", "t", " ", "5">>
TagOnlySample == <<"<", "b", "r", ">">>
HtmlSample == <<"<", "p", ">", "H", "i", " ", "<", "b", ">", "t", "h", "e", "r", "e", "<", "/", "b", ">", "<", "/", "p", ">">>
SnippetSample == <<"H", "e", "l", "l", "o", " ", "B", ".", ".", ".">>
InvalidUtf8Sample == <<"H", "i", "xFF">>

Part(mime, data) == [mimeType |-> mime, data |-> data]

Parts == {
    Part(TextPlain, NoData),
    Part(TextPlain, BadPadding(PlainSample)),
    Part(TextPlain, Enc(InvalidUtf8Sample)),
    Part(TextPlain, Enc(PlainSample)),
    Part(TextPlain, Enc(OtherPlainSample)),
    Part(TextPlain, Enc(TagOnlySample)),
    Part(TextHtml, NoData),
    Part(TextHtml, BadPadding(HtmlSample)),
    Part(TextHtml, Enc(HtmlSample)),
    Part(<<"image", "png">>, Enc(PlainSample)),
    Part(<<"application", "pdf">>, Enc(PlainSample)),
    Part(<<"", "">>, Enc(PlainSample)) }

Snippets == {[present |-> FALSE, text |-> <<>>], [present |-> TRUE, text |-> SnippetSample]}

NoInline == [hasData |-> FALSE, data |-> NoData]

Inlines == {NoInline} \cup
    {[hasData |-> TRUE, data |-> d] :
        d \in {Enc(PlainSample), Enc(<<>>), BadPadding(PlainSample), Enc(InvalidUtf8Sample)}}

PartLists == UNION {[1..n -> Parts] : n \in 0..MaxParts}

Messages ==
    {[hasPayload |-> FALSE, hasParts |-> FALSE, parts |-> <<>>, inline |-> NoInline, snippet |-> sn] :
        sn \in Snippets}
    \cup {[hasPayload |-> TRUE, hasParts |-> TRUE, parts |-> ps, inline |-> NoInline, snippet |-> sn] :
        ps \in PartLists, sn \in Snippets}
    \cup {[hasPayload |-> TRUE, hasParts |-> FALSE, parts |-> <<>>, inline |-> il, snippet |-> sn] :
        il \in Inlines, sn \in Snippets}

InitBody ==
    /\ pc = "down"
    /\ processed_ids = {}
    /\ seenFile = [exists |-> FALSE, content |-> <<>>]
    /\ inbox = {}
    /\ items = <<>>
    /\ idx = 1
    /\ slept = 0
    /\ lastEvent = NoEvent
    /\ cyc = EmptyCycle
    /\ retry = {}
    /\ msg \in Messages
    /\ body = [done |-> FALSE, text |-> <<>>]
    /\ norm = [none |-> TRUE]

\* create_action_file's call full_body = self._extract_full_email_body(msg)
ExtractBody ==
    /\ ~body.done
    /\ body' = [done |-> TRUE, text |-> ExtractFullEmailBody(msg)]
    /\ UNCHANGED <<msg, norm>>
    /\ UNCHANGED loopVars

NextBody == ExtractBody

SpecBody == InitBody /\ [][NextBody]_vars

-----------------------------------------------------------------------------
(* Claims about the body extractor *)

\* the candidates of a part list in the priority order: the text/plain parts
\* with data, then the text/html parts with data; image parts are skipped
Candidates(parts) ==
    SelectSeq(parts, LAMBDA q : q.mimeType = TextPlain /\ q.data.present)
    \o SelectSeq(parts, LAMBDA q : q.mimeType = TextHtml /\ q.data.present)

Decodable(part) == ~Decode(part.data).raised

\* the text a usable candidate yields
Derived(part) ==
    IF part.mimeType = TextPlain THEN Finish(Decode(part.data).text)
    ELSE Finish(HtmlToPlainText(Decode(part.data).text))

\* C8: a part that cannot be decoded is only skipped: the body of a multipart
\* message is the text of the first candidate, in the priority order, that
\* decodes, and the normalized snippet only when no candidate decodes.
C8_DecodeErrorSkipsPart ==
    (body.done /\ msg.hasPayload /\ msg.hasParts /\ msg.snippet.present) =>
        LET usable == SelectSeq(Candidates(msg.parts), Decodable)
        IN IF usable # <<>> THEN body.text = Derived(usable[1])
           ELSE body.text = Finish(msg.snippet.text)

-----------------------------------------------------------------------------
(* Text normalizer: _clean_text and _ensure_plain_text, each applied to a
   text and then to its own output *)

\* number of fragments an input text is made of
MaxFrags == 4

\* the pieces the input texts are made of: an ampersand, entity names with
\* and without their semicolon, the two URL prefixes, a letter and a space
Fragments ==
    { <<"&">>,
      <<"a", "m", "p", ";">>,
      <<"a", "m", "p">>,
      <<"l", "t", ";">>,
      <<"h", "t", "t", "p", ":", "/", "/">>,
      <<"w", "w", "w", ".">>,
      <<"a">>,
      <<" ">> }

\* the texts made of at most n fragments
RECURSIVE TextsOf(_)
TextsOf(n) ==
    IF n = 0 THEN {<<>>}
    ELSE LET shorter == TextsOf(n - 1)
         IN shorter \cup {f \o t : f \in Fragments, t \in shorter}

InitText ==
    /\ pc = "down"
    /\ processed_ids = {}
    /\ seenFile = [exists |-> FALSE, content |-> <<>>]
    /\ inbox = {}
    /\ items = <<>>
    /\ idx = 1
    /\ slept = 0
    /\ lastEvent = NoEvent
    /\ cyc = EmptyCycle
    /\ retry = {}
    /\ msg = [none |-> TRUE]
    /\ body = [done |-> FALSE]
    /\ norm \in {[fn |-> "none", passes |-> 0, text |-> t] : t \in TextsOf(MaxFrags)}

\* text = self._clean_text(text), on the input and then on what it returned
CleanTextPass ==
    /\ norm.fn \in {"none", "_clean_text"}
    /\ norm.passes < 2
    /\ norm' = [fn |-> "_clean_text", passes |-> norm.passes + 1, text |-> CleanText(norm.text)]
    /\ UNCHANGED <<msg, body>>
    /\ UNCHANGED loopVars

\* text = self._ensure_plain_text(text), on the input and then on what it returned
EnsurePlainTextPass ==
    /\ norm.fn \in {"none", "_ensure_plain_text"}
    /\ norm.passes < 2
    /\ norm' = [fn |-> "_ensure_plain_text", passes |-> norm.passes + 1,
                text |-> EnsurePlainText(norm.text)]
    /\ UNCHANGED <<msg, body>>
    /\ UNCHANGED loopVars

NextText ==
    \/ CleanTextPass
    \/ EnsurePlainTextPass

SpecText == InitText /\ [][NextText]_vars

-----------------------------------------------------------------------------
(* Claims about the text normalizer *)

\* C11: the normalizer is idempotent: applied to its own output, _clean_text
\* and likewise _ensure_plain_text return that output unchanged.
C11_NormalizerIdempotent ==
    [][norm.passes = 1 => norm'.text = norm.text]_vars

====
